---- MODULE Spec2Model ----
(***************************************************************************)
(* HyQ: analytical groundwater model (Theis well equation).                *)
(*                                                                         *)
(* Number representation.  The program computes in IEEE doubles; the model *)
(* computes in fixed point.  Lengths handed to the Theis solver are in     *)
(* centimetres (so the floor 0.01 m is the integer 1), every other real    *)
(* (u, W(u), drawdown, head) is in units of 1/FP.  Coordinates, Q, T, S, t *)
(* and H0 are the plain numbers the caller passes.  A numpy NaN is the     *)
(* value NaN; a raised Python exception is the value Raise.                *)
(***************************************************************************)
EXTENDS Integers, Sequences, FiniteSets, TLC

\* fixed-point unit: 1.0 is FP
FP == 10000

\* the value of a numpy cell holding nan
NaN == -99999999

\* the outcome of an evaluation that raised (ZeroDivisionError, ValueError)
Raise == -99999998

IsNum(v) == v # NaN /\ v # Raise

\* ------------------------------------------------------------------------
\* library functions used by the source
\* ------------------------------------------------------------------------

\* square root bit by bit: r is the root so far, b the bit to try
RECURSIVE ISqrtFrom(_, _, _)
ISqrtFrom(n, r, b) ==
    IF b = 0 THEN r
    ELSE IF (r + b) * (r + b) <= n THEN ISqrtFrom(n, r + b, b \div 2)
    ELSE ISqrtFrom(n, r, b \div 2)

\* floor of the square root of n, 0 <= n < 2^30
ISqrt(n) == ISqrtFrom(n, 0, 16384)

\* math.dist([x1, y1], [x2, y2]) in centimetres, coordinates in metres
math_dist(x1, y1, x2, y2) ==
    ISqrt(FP * ((x1 - x2) * (x1 - x2) + (y1 - y2) * (y1 - y2)))

\* math.ceil(a / b) for b # 0 (Python true division, then ceiling)
math_ceil_div(a, b) ==
    IF b > 0 THEN -((-a) \div b) ELSE -(a \div (-b))

RECURSIVE Log2Floor(_)
Log2Floor(n) == IF n < 2 THEN 0 ELSE 1 + Log2Floor(n \div 2)

RECURSIVE Pow2(_)
Pow2(k) == IF k = 0 THEN 1 ELSE 2 * Pow2(k - 1)

\* ln(2) in fixed point
Ln2 == 6931

\* 2 (z + z^3/3 + z^5/5) in fixed point: ln((1 + z)/(1 - z))
LnSeries(z) ==
    LET z2 == (z * z) \div FP
        z3 == (z2 * z) \div FP
        z5 == (z3 * z2) \div FP
    IN  2 * (z + z3 \div 3 + z5 \div 5)

\* ln(n) for n = p * m, p = 2^k, 1 <= m < 2: k ln 2 + ln m
LnParts(n, k, p) == k * Ln2 + LnSeries((FP * (n - p)) \div (n + p))

\* math.log(n) for an integer n >= 1, in fixed point
LnInt(n) == LnParts(n, Log2Floor(n), Pow2(Log2Floor(n)))

\* math.log(num/den) for num, den >= 1, in fixed point
math_log(num, den) == LnInt(num) - LnInt(den)

\* a / b for b # 0, rounded down
Div(a, b) == IF b > 0 THEN a \div b ELSE (-a) \div (-b)

\* ------------------------------------------------------------------------
\* hyq/theis.py
\* ------------------------------------------------------------------------

\* the floor 0.01 of theis_u, in centimetres
RFloor == 1

\* theis_u as it would be without the floor on r
theis_u_nofloor(r, S, T, t, isnp) ==
    LET num  == r * r * S
        den  == 4 * T * t * FP
    IN  IF den = 0
        THEN IF ~isnp THEN [tag |-> "raise", num |-> 0, den |-> 1]
             ELSE IF num > 0 THEN [tag |-> "inf", num |-> 0, den |-> 1]
             ELSE IF num < 0 THEN [tag |-> "ninf", num |-> 0, den |-> 1]
             ELSE [tag |-> "nan", num |-> 0, den |-> 1]
        ELSE IF den > 0 THEN [tag |-> "fin", num |-> num, den |-> den]
             ELSE [tag |-> "fin", num |-> -num, den |-> -den]

\* Theis parameter u = r^2 S / (4 T t).  r is in centimetres; isnp says that
\* r is a numpy scalar (read from a distance matrix) rather than a Python
\* float.  The result is a record: tag "fin" with u = num/den (den > 0),
\* "inf"/"ninf"/"nan" when numpy divides by zero, "raise" when Python does.
theis_u(r, S, T, t, isnp) ==
    LET rr   == IF r > 0 THEN r ELSE RFloor
        np   == isnp /\ r > 0
        num  == rr * rr * S
        den  == 4 * T * t * FP
    IN  IF den = 0
        THEN IF ~np THEN [tag |-> "raise", num |-> 0, den |-> 1]
             ELSE IF num > 0 THEN [tag |-> "inf", num |-> 0, den |-> 1]
             ELSE IF num < 0 THEN [tag |-> "ninf", num |-> 0, den |-> 1]
             ELSE [tag |-> "nan", num |-> 0, den |-> 1]
        ELSE IF den > 0 THEN [tag |-> "fin", num |-> num, den |-> den]
             ELSE [tag |-> "fin", num |-> -num, den |-> -den]

\* the constant 0.5772 of theis_wellfunction
EulerGamma == 5772

\* the loop of theis_wellfunction from index i on: x = 2 + i, a is
\* u^(x-1)/(x-1)!, acc the running baseterm
RECURSIVE wellfunction_loop(_, _, _, _, _)
wellfunction_loop(u, i, n, a, acc) ==
    IF i >= n THEN acc
    ELSE LET x    == 2 + i
             ax   == (a * u) \div (FP * x)
             term == ax \div x
         IN  IF x % 2 = 0
             THEN wellfunction_loop(u, i + 1, n, ax, acc - term)
             ELSE wellfunction_loop(u, i + 1, n, ax, acc + term)

\* W(u): -0.5772 - ln(u) + u - u^2/(2*2!) + u^3/(3*3!) - ...
theis_wellfunction(u, n) ==
    IF u.tag = "nan" \/ u.tag = "inf" THEN NaN
    ELSE IF u.tag = "ninf" \/ u.tag = "raise" \/ u.num <= 0 THEN Raise
    ELSE LET ufp == (FP * u.num) \div u.den
             baseterm == -EulerGamma - math_log(u.num, u.den) + ufp
         IN  wellfunction_loop(ufp, 0, n, ufp, baseterm)

\* 4*pi = 15708/1250
FourPiNum == 15708
FourPiDen == 1250

\* the return expression of theis_drawdown: (Q/(4 pi T)) * W_von_u
drawdown_from_W(Q, T, W_von_u) ==
    IF W_von_u = Raise \/ T = 0 THEN Raise
    ELSE IF W_von_u = NaN THEN NaN
    ELSE Div(FourPiDen * Q * W_von_u, FourPiNum * T)

\* confined drawdown s = Q/(4 pi T) * W(u)
theis_drawdown(Q, T, r, S, t, n, isnp) ==
    drawdown_from_W(Q, T, theis_wellfunction(theis_u(r, S, T, t, isnp), n))

\* unconfined correction s - s^2/(2H), for a head H # 0
jakob_freegw_mod(s, H) ==
    IF s = NaN THEN NaN
    ELSE s - Div(s * s, 2 * H)

\* default length of the polynomial
NTerms == 30

\* ------------------------------------------------------------------------
\* Python and numpy values
\* ------------------------------------------------------------------------

\* the empty dict {}
EmptyDict == [k \in {} |-> 0]

\* d[k] = v
Put(d, k, v) == [x \in (DOMAIN d) \cup {k} |-> IF x = k THEN v ELSE d[x]]

\* a 2D numpy array is a record of its shape and its cells v.
\* the cells of an array of the given shape, multi_index (i, j)
Cells(shape) == (0 .. shape[1] - 1) \X (0 .. shape[2] - 1)

\* np.full(shape, fill_value)
np_full(shape, fill_value) ==
    [shape |-> shape, v |-> [c \in Cells(shape) |-> fill_value]]

\* np.zeros / np.full accept the shape (no negative dimension)
ShapeOk(shape) == shape[1] >= 0 /\ shape[2] >= 0

\* a - b on floats, nan absorbing
FSub(a, b) == IF a = NaN \/ b = NaN THEN NaN ELSE a - b

\* A - B, arrays of the same shape
ArraySub(A, B) == [shape |-> A.shape, v |-> [c \in DOMAIN A.v |-> FSub(A.v[c], B.v[c])]]

\* ------------------------------------------------------------------------
\* hyq/wells.py: the objects the caller holds
\* ------------------------------------------------------------------------

\* instances of hyq.wells.well, by name: ID, x, y, Q
WellObjs ==
    [w1 |-> [ID |-> "w1", x |-> 0, y |-> 0,  Q |-> 1],
     w2 |-> [ID |-> "w2", x |-> 1, y |-> -1, Q |-> 2]]

Wells == DOMAIN WellObjs

\* an object that is not a well
NonWells == {"notawell"}

Objects == Wells \cup NonWells

\* isinstance(arg, hyq.wells.well)
isinstance_well(arg) == arg \in Wells

\* ------------------------------------------------------------------------
\* HyQ/model_backend.py
\* ------------------------------------------------------------------------

\* grid description, array shape and affine transform from the arguments;
\* exc is the exception the divisions raise when a resolution is 0
raster_from_scratch(x_min, y_max, len_x, len_y, res_x, res_y) ==
    IF res_y = 0 \/ res_x = 0
    THEN [exc |-> "ZeroDivisionError"]
    ELSE [exc |-> "none",
          description |-> [x_min |-> x_min, y_max |-> y_max, len_x |-> len_x,
                           len_y |-> len_y, res_x |-> res_x, res_y |-> res_y],
          arrayshape |-> <<math_ceil_div(len_y, res_y), math_ceil_div(len_x, res_x)>>,
          affine |-> <<res_x, 0, x_min, 0, -res_y, y_max>>]

\* per-cell distance (centimetres) between the well and the cell's world
\* coordinate x = x_min + j res_x, y = y_max - i res_y
calculate_well_dist_mat(well, shape, res_x, res_y, x_min, y_max) ==
    [shape |-> shape,
     v |-> [c \in Cells(shape) |->
               math_dist(well.x, well.y, x_min + c[2] * res_x, y_max - c[1] * res_y)]]

\* s_final of one cell from the confined drawdown s and the cell's H0
s_final(s, confined, H) ==
    IF s = Raise THEN [exc |-> "ArithmeticError", v |-> 0]
    ELSE IF confined THEN [exc |-> "none", v |-> s]
    ELSE [exc |-> "none", v |-> jakob_freegw_mod(s, H)]

\* the body of the nditer loop of calculate_well_drawdown for cell c:
\* the exception it raises ("none" if it does not) and the cell's value.
\* wa holds the attributes of the well object
drawdown_cell(H0, t, well, wa, aquiferparams, c) ==
    IF "distmat" \notin DOMAIN wa THEN [exc |-> "AttributeError", v |-> 0]
    ELSE IF c \notin DOMAIN wa.distmat.v THEN [exc |-> "IndexError", v |-> 0]
    ELSE s_final(theis_drawdown(well.Q, aquiferparams.T, wa.distmat.v[c],
                                aquiferparams.S, t, NTerms, TRUE),
                 aquiferparams.confined, H0.v[c])

\* c comes before d in nditer (C) order
CellBefore(c, d) == c[1] < d[1] \/ (c[1] = d[1] /\ c[2] < d[2])

\* the outcome of the nditer loop from the outcomes of its cells: the
\* exception of the first cell (in iteration order) that raises, else sgrid
sgrid_from_cells(shape, cells) ==
    LET bad == {c \in Cells(shape) : cells[c].exc # "none"}
    IN  IF bad # {}
        THEN [exc |-> cells[CHOOSE c \in bad : \A d \in bad : d = c \/ CellBefore(c, d)].exc]
        ELSE [exc |-> "none",
              sgrid |-> [shape |-> shape, v |-> [c \in Cells(shape) |-> cells[c].v]]]

\* drawdown field of one well at time t over the shape of H0
calculate_well_drawdown(H0, t, well, wa, aquiferparams) ==
    sgrid_from_cells(H0.shape,
        [c \in Cells(H0.shape) |-> drawdown_cell(H0, t, well, wa, aquiferparams, c)])

\* ------------------------------------------------------------------------
\* hyq/model.py: class GWModel
\* ------------------------------------------------------------------------

VARIABLES
    grid,        \* self.grid: dict
    aquifer,     \* self.aquifer: dict
    wells,       \* self.wells: list of well objects (by name)
    timesteps,   \* self.timesteps: list
    H,           \* self.H: list of arrays
    wattr,       \* the attributes distmat, drawdown set on each well object
    last,        \* the last call: method, arguments, exception raised
    theis_call   \* a direct call of theis_drawdown: its arguments and result

vars == <<grid, aquifer, wells, timesteps, H, wattr, last, theis_call>>

\* the result of a call that has not returned yet
Pending == -99999997

\* no direct call of the solver
NoCall == [Q |-> 0, T |-> 0, r |-> 0, S |-> 0, t |-> 0, s |-> Pending]

Call(op, args, exc) == [op |-> op, args |-> args, exc |-> exc]

\* GWModel.__init__, and wells as constructed by well.__init__
Init ==
    /\ grid = EmptyDict
    /\ aquifer = EmptyDict
    /\ wells = <<>>
    /\ timesteps = <<>>
    /\ H = <<>>
    /\ wattr = [w \in Wells |-> EmptyDict]
    /\ last = Call("__init__", <<>>, "none")
    /\ theis_call = NoCall

\* the origin-distance field filled by the nditer loop of set_grid
origindist_field(shape, res_x, res_y) ==
    [shape |-> shape,
     v |-> [c \in Cells(shape) |-> math_dist(0, 0, c[2] * res_x, c[1] * res_y)]]

\* GWModel.set_grid(x_min, y_max, len_x, len_y, res_x, res_y), crs = None
set_grid(x_min, y_max, len_x, len_y, res_x, res_y) ==
    LET g1 == Put(grid, "crs", "None")
        r  == raster_from_scratch(x_min, y_max, len_x, len_y, res_x, res_y)
        g2 == Put(Put(Put(g1, "description", r.description),
                      "arrayshape", r.arrayshape), "affine", r.affine)
    IN  /\ IF r.exc # "none"
           THEN grid' = g1 /\ last' = Call("set_grid", <<>>, r.exc)
           ELSE IF ~ShapeOk(r.arrayshape)
           THEN grid' = g2 /\ last' = Call("set_grid", <<>>, "ValueError")
           ELSE /\ grid' = Put(g2, "origindist",
                               origindist_field(r.arrayshape, res_x, res_y))
                /\ last' = Call("set_grid", <<>>, "none")
        /\ UNCHANGED <<aquifer, wells, timesteps, H, wattr, theis_call>>

\* GWModel.set_aquiferparams(H0, T, S, M, confined)
set_aquiferparams(H0, T, S, M, confined) ==
    /\ IF "arrayshape" \notin DOMAIN grid
       THEN UNCHANGED <<grid, aquifer>> /\ last' = Call("set_aquiferparams", <<>>, "KeyError")
       ELSE IF ~ShapeOk(grid.arrayshape)
       THEN UNCHANGED <<grid, aquifer>> /\ last' = Call("set_aquiferparams", <<>>, "ValueError")
       ELSE /\ grid' = Put(grid, "H0", np_full(grid.arrayshape, H0 * FP))
            /\ aquifer' = Put(Put(Put(Put(aquifer, "T", T), "S", S), "M", M),
                              "confined", confined)
            /\ last' = Call("set_aquiferparams", <<>>, "none")
    /\ UNCHANGED <<wells, timesteps, H, wattr, theis_call>>

\* __calculate_well_dist_mat as it would be if it computed the distances
\* only of wells that have none yet
calculate_well_dist_mat_new(ws) ==
    IF "description" \notin DOMAIN grid THEN [exc |-> "KeyError", wattr |-> wattr]
    ELSE IF ws # <<>> /\ "origindist" \notin DOMAIN grid
    THEN [exc |-> "KeyError", wattr |-> wattr]
    ELSE LET d == grid.description
             listed == {ws[k] : k \in DOMAIN ws}
         IN  [exc |-> "none",
              wattr |-> [w \in Wells |->
                  IF w \in listed /\ "distmat" \notin DOMAIN wattr[w]
                  THEN Put(wattr[w], "distmat",
                           calculate_well_dist_mat(WellObjs[w], grid.origindist.shape,
                               d.res_x, d.res_y, d.x_min, d.y_max))
                  ELSE wattr[w]]]

\* GWModel.__calculate_well_dist_mat on the well list ws: the exception it
\* raises and the well attributes it leaves
calculate_well_dist_mat_all(ws) ==
    IF "description" \notin DOMAIN grid THEN [exc |-> "KeyError", wattr |-> wattr]
    ELSE IF ws # <<>> /\ "origindist" \notin DOMAIN grid
    THEN [exc |-> "KeyError", wattr |-> wattr]
    ELSE LET d == grid.description
             listed == {ws[k] : k \in DOMAIN ws}
         IN  [exc |-> "none",
              wattr |-> [w \in Wells |->
                  IF w \in listed
                  THEN Put(wattr[w], "distmat",
                           calculate_well_dist_mat(WellObjs[w], grid.origindist.shape,
                               d.res_x, d.res_y, d.x_min, d.y_max))
                  ELSE wattr[w]]]

\* the arguments of add_wells as they would be appended without the
\* isinstance test
well_args_unchecked(args) == args

\* the arguments of add_wells that pass the isinstance test, in order
well_args(args) == SelectSeq(args, isinstance_well)

\* GWModel.add_wells(*args)
add_wells(args) ==
    LET ws == wells \o well_args(args)
        r  == calculate_well_dist_mat_all(ws)
    IN  /\ wells' = ws
        /\ wattr' = r.wattr
        /\ last' = Call("add_wells", args, r.exc)
        /\ UNCHANGED <<grid, aquifer, timesteps, H, theis_call>>

\* GWModel.set_timesteps(tlist)
set_timesteps(tlist) ==
    /\ timesteps' = tlist
    /\ last' = Call("set_timesteps", <<>>, "none")
    /\ UNCHANGED <<grid, aquifer, wells, H, wattr, theis_call>>

\* the inner loop of run (for well in self.wells) from position k on, for
\* time t: Hacc is the running head H, wa the well attributes so far
RECURSIVE run_wells(_, _, _, _)

\* the body of the inner loop for the well at position k, r the outcome of
\* calculate_well_drawdown: well.drawdown = sgrid; H = H - sgrid
run_well_body(t, k, Hacc, wa, r) ==
    IF r.exc # "none" THEN [exc |-> r.exc, H |-> Hacc, wattr |-> wa]
    ELSE run_wells(t, k + 1, ArraySub(Hacc, r.sgrid),
                   [wa EXCEPT ![wells[k]] = Put(wa[wells[k]], "drawdown", r.sgrid)])

run_wells(t, k, Hacc, wa) ==
    IF k > Len(wells) THEN [exc |-> "none", H |-> Hacc, wattr |-> wa]
    ELSE run_well_body(t, k, Hacc, wa,
             calculate_well_drawdown(grid.H0, t, WellObjs[wells[k]], wa[wells[k]], aquifer))

\* the outer loop of run (for t in self.timesteps) from position k on: Hs
\* is self.H so far
RECURSIVE run_timesteps(_, _, _)

\* the end of the outer loop's body, r the outcome of the inner loop:
\* self.H.append(H)
run_timestep_body(k, Hs, r) ==
    IF r.exc # "none" THEN [exc |-> r.exc, H |-> Hs, wattr |-> r.wattr]
    ELSE run_timesteps(k + 1, Append(Hs, r.H), r.wattr)

\* the outer loop as it would be if each timestep started from the head of
\* the previous snapshot
run_timesteps_cumulative(k, Hs, wa) ==
    IF k > Len(timesteps) THEN [exc |-> "none", H |-> Hs, wattr |-> wa]
    ELSE run_timestep_body(k, Hs,
             run_wells(timesteps[k], 1,
                       IF Hs = <<>> THEN grid.H0 ELSE Hs[Len(Hs)], wa))

run_timesteps(k, Hs, wa) ==
    IF k > Len(timesteps) THEN [exc |-> "none", H |-> Hs, wattr |-> wa]
    ELSE run_timestep_body(k, Hs, run_wells(timesteps[k], 1, grid.H0, wa))

\* the state run leaves, r the outcome of its loops
run_result(r) ==
    H' = r.H /\ wattr' = r.wattr /\ last' = Call("run", <<>>, r.exc)

\* run as it would be if it started from an empty result list
run_replacing ==
    /\ IF "H0" \notin DOMAIN grid
       THEN UNCHANGED <<H, wattr>> /\ last' = Call("run", <<>>, "KeyError")
       ELSE run_result(run_timesteps(1, <<>>, wattr))
    /\ UNCHANGED <<grid, aquifer, wells, timesteps, theis_call>>

\* GWModel.run()
run ==
    /\ IF "H0" \notin DOMAIN grid
       THEN UNCHANGED <<H, wattr>> /\ last' = Call("run", <<>>, "KeyError")
       ELSE run_result(run_timesteps(1, H, wattr))
    /\ UNCHANGED <<grid, aquifer, wells, timesteps, theis_call>>

\* ------------------------------------------------------------------------
\* the calls a client makes
\* ------------------------------------------------------------------------

\* sequences over S of length at most n
SeqsUpTo(S, n) == UNION {[1 .. k -> S] : k \in 0 .. n}

\* grids: 1 x 2 cells, 1 x 1 cell, a negative resolution, a zero resolution
\* (x_min, y_max, len_x, len_y, res_x, res_y)
Grid12 == <<0, 0, 2, 1, 1, 1>>
Grid11 == <<0, 0, 1, 1, 1, 1>>
GridNeg == <<0, 0, 1, 1, -1, 1>>
GridZero == <<0, 0, 1, 1, 0, 1>>

\* aquifers (H0, T, S, M, confined)
AqConfined == <<10, 1, 1, 1, TRUE>>
AqUnconfined == <<10, 1, 1, 1, FALSE>>
AqZeroT == <<10, 0, 1, 1, TRUE>>

do_set_grid(GA) == \E a \in GA : set_grid(a[1], a[2], a[3], a[4], a[5], a[6])

do_set_aquiferparams(AA) ==
    \E a \in AA : set_aquiferparams(a[1], a[2], a[3], a[4], a[5])

do_add_wells(WA, maxwells) ==
    \E args \in WA :
        /\ Len(wells) + Len(well_args(args)) <= maxwells
        /\ add_wells(args)

do_set_timesteps(TL) == \E tlist \in TL : set_timesteps(tlist)

do_run(maxh) == Len(H) + Len(timesteps) <= maxh /\ run

\* --- a client with one well, good and bad timestep lists, repeated runs --

\* longest self.H and longest self.wells explored
MaxH == 4
MaxWells == 1

Next ==
    \/ do_set_grid({Grid12, GridNeg, GridZero})
    \/ do_set_aquiferparams({AqUnconfined, AqZeroT})
    \/ do_add_wells({<<"w1">>}, MaxWells)
    \/ do_set_timesteps({<<1>>, <<1, 2>>, <<2, -1>>, <<1, 0>>})
    \/ do_run(MaxH)

Spec == Init /\ [][Next]_vars

\* --- a client that changes the grid between registrations of wells --------

\* longest self.wells and longest self.H explored
MaxWellsGrid == 2
MaxHGrid == 1

NextGrid ==
    \/ do_set_grid({Grid12, Grid11, GridNeg})
    \/ do_set_aquiferparams({AqConfined})
    \/ do_add_wells({<<>>, <<"w1">>, <<"w2">>, <<"notawell">>}, MaxWellsGrid)
    \/ do_set_timesteps({<<1>>})
    \/ do_run(MaxHGrid)

SpecGrid == Init /\ [][NextGrid]_vars

\* --- a client that passes wells and other objects to add_wells ------------

\* longest argument list of add_wells, longest self.wells, longest self.H
MaxArgs == 2
MaxWellsArgs == 2
MaxHArgs == 1

NextArgs ==
    \/ do_set_grid({Grid12, GridNeg})
    \/ do_set_aquiferparams({AqConfined})
    \/ do_add_wells(SeqsUpTo(Objects, MaxArgs), MaxWellsArgs)
    \/ do_set_timesteps({<<1>>})
    \/ do_run(MaxHArgs)

SpecArgs == Init /\ [][NextArgs]_vars

\* --- a client with two wells, confined and unconfined aquifers -----------

\* longest self.wells and longest self.H explored
MaxWellsSuper == 2
MaxHSuper == 2

NextSuper ==
    \/ do_set_grid({Grid12})
    \/ do_set_aquiferparams({AqConfined, AqUnconfined})
    \/ do_add_wells({<<"w1">>, <<"w2">>}, MaxWellsSuper)
    \/ do_set_timesteps({<<2>>, <<1, 2>>})
    \/ do_run(MaxHSuper)

SpecSuper == Init /\ [][NextSuper]_vars

\* --- a client that calls theis_drawdown directly --------------------------

\* largest Q, T, S, t and largest r (metres) passed to the solver
MaxParam == 2
MaxR == 1

\* r in centimetres: negative, zero, the floor, whole metres
TheisR == {-100, 0, RFloor} \cup {100 * k : k \in 1 .. MaxR}

InitTheis ==
    /\ grid = EmptyDict /\ aquifer = EmptyDict /\ wells = <<>> /\ timesteps = <<>>
    /\ H = <<>> /\ wattr = [w \in Wells |-> EmptyDict]
    /\ last = Call("__init__", <<>>, "none")
    /\ theis_call \in [Q : 0 .. MaxParam, T : 0 .. MaxParam, r : TheisR,
                       S : 0 .. MaxParam, t : 0 .. MaxParam, s : {Pending}]

\* theis_drawdown(Q, T, r, S, t) called with Python floats
call_theis_drawdown ==
    /\ theis_call.s = Pending
    /\ theis_call' = [theis_call EXCEPT !.s =
           theis_drawdown(theis_call.Q, theis_call.T, theis_call.r,
                          theis_call.S, theis_call.t, NTerms, FALSE)]
    /\ UNCHANGED <<grid, aquifer, wells, timesteps, H, wattr, last>>

NextTheis == call_theis_drawdown

SpecTheis == InitTheis /\ [][NextTheis]_vars

\* ------------------------------------------------------------------------
\* properties
\* ------------------------------------------------------------------------

\* the step is a call of method op
Called(op) == last'.op = op

\* the step is a call of method op that returned without an exception
Returned(op) == last'.op = op /\ last'.exc = "none"

\* the step is a call of method op that raised
Raised(op) == last'.op = op /\ last'.exc # "none"

\* the sum of the drawdown fields ds (a sequence of arrays) at cell c
RECURSIVE SumAt(_, _)
SumAt(ds, c) ==
    IF ds = <<>> THEN 0
    ELSE IF Head(ds).v[c] = NaN \/ SumAt(Tail(ds), c) = NaN THEN NaN
    ELSE Head(ds).v[c] + SumAt(Tail(ds), c)

\* the drawdown field of the well at position k of self.wells alone, at
\* time t, from its own cached distances and the static H0
SingleWellDrawdown(k, t) ==
    calculate_well_drawdown(grid.H0, t, WellObjs[wells[k]], wattr[wells[k]], aquifer).sgrid

\* H0 minus the sum of the single-well drawdowns at time t
SuperposedHead(t) ==
    LET ds == [k \in 1 .. Len(wells) |-> SingleWellDrawdown(k, t)]
    IN  [shape |-> grid.H0.shape,
         v |-> [c \in Cells(grid.H0.shape) |-> FSub(grid.H0.v[c], SumAt(ds, c))]]

\* C1: every successful run() keeps the previous contents of H as a prefix
\* and appends exactly len(timesteps) snapshots, the i-th being the one for
\* timesteps[i]
C1_RunAppends ==
    [][Returned("run") =>
          /\ Len(H') = Len(H) + Len(timesteps)
          /\ SubSeq(H', 1, Len(H)) = H
          /\ \A i \in 1 .. Len(timesteps) :
                 H'[Len(H) + i] = SuperposedHead(timesteps[i])]_vars

\* C1 witness: a second successful run with two timesteps has doubled H
C1_Witness ==
    /\ last.op = "run" /\ last.exc = "none"
    /\ Len(timesteps) = 2 /\ Len(H) = 4
    /\ wells # <<>>
    /\ H[1] = H[3] /\ H[2] = H[4] /\ H[1] # H[2]

\* C2 (as claimed): after a successful run() H has exactly one snapshot per
\* entry of timesteps, H[i] being the snapshot for timesteps[i]
C2_AlignedWithTimesteps ==
    (last.op = "run" /\ last.exc = "none") =>
        /\ Len(H) = Len(timesteps)
        /\ \A i \in 1 .. Len(timesteps) : H[i] = SuperposedHead(timesteps[i])

\* C4 (as claimed): a run() that fails leaves in H nothing added by that call
C4_NoPartialResult ==
    [][Raised("run") => H' = H]_vars

\* set_timesteps has not been called (the clients never pass an empty list)
NoTimesteps == timesteps = <<>>

\* C5 (as claimed): an operation invoked before its prerequisite stage fails
\* at that call: set_aquiferparams and add_wells before set_grid, run before
\* set_aquiferparams or before set_timesteps
C5_OutOfOrderFails ==
    [][/\ (Called("set_aquiferparams") /\ "description" \notin DOMAIN grid)
            => last'.exc # "none"
       /\ (Called("add_wells") /\ "description" \notin DOMAIN grid)
            => last'.exc # "none"
       /\ (Called("run") /\ ("T" \notin DOMAIN aquifer \/ NoTimesteps))
            => last'.exc # "none"]_vars

\* C6 (as claimed): no reachable state stores a non-positive T, S,
\* resolution or timestep
C6_NoInvalidStored ==
    /\ "T" \in DOMAIN aquifer => aquifer.T > 0 /\ aquifer.S > 0
    /\ "description" \in DOMAIN grid =>
           grid.description.res_x > 0 /\ grid.description.res_y > 0
    /\ \A i \in 1 .. Len(timesteps) : timesteps[i] > 0

\* the confined or corrected drawdown of the well at position k of
\* self.wells alone, at time t and cell c
SingleWellCell(k, t, c) ==
    LET s == theis_drawdown(WellObjs[wells[k]].Q, aquifer.T,
                            wattr[wells[k]].distmat.v[c], aquifer.S, t, NTerms, TRUE)
    IN  IF aquifer.confined THEN s ELSE s - (s * s) \div (2 * grid.H0.v[c])

\* the sum of the single-well drawdowns of the wells at positions k..Len
RECURSIVE SumWells(_, _, _)
SumWells(k, t, c) ==
    IF k > Len(wells) THEN 0 ELSE SingleWellCell(k, t, c) + SumWells(k + 1, t, c)

\* C3: every snapshot a successful run() appends for timestep t equals,
\* cell by cell, H0 minus the sum over the registered wells of each well's
\* own drawdown at t (corrected against the static H0 when unconfined),
\* whatever was computed before
C3_Superposition ==
    [][Returned("run") =>
          \A i \in 1 .. Len(timesteps) : \A c \in Cells(grid.H0.shape) :
              H'[Len(H) + i].v[c] = grid.H0.v[c] - SumWells(1, timesteps[i], c)]_vars

\* C3 witness: an unconfined two-well run over two timesteps, one well on a
\* grid cell; the snapshots differ from H0 and from each other
C3_Witness ==
    /\ last.op = "run" /\ last.exc = "none"
    /\ wells = <<"w1", "w2">> /\ timesteps = <<1, 2>> /\ Len(H) = 2
    /\ ~aquifer.confined
    /\ wattr["w1"].distmat.v[<<0, 0>>] = 0
    /\ H[1].v[<<0, 0>>] < grid.H0.v[<<0, 0>>]
    /\ H[2].v[<<0, 0>>] < H[1].v[<<0, 0>>]

\* the distance matrix cached on well object w, if any
Distmat(w) ==
    IF "distmat" \in DOMAIN wattr[w] THEN wattr[w].distmat
    ELSE [shape |-> <<-1, -1>>, v |-> <<>>]

\* the objects in a list
Elems(seq) == {seq[k] : k \in DOMAIN seq}

RECURSIVE OnlyWells(_)
OnlyWells(args) ==
    IF args = <<>> THEN <<>>
    ELSE IF Head(args) \in Wells THEN <<Head(args)>> \o OnlyWells(Tail(args))
    ELSE OnlyWells(Tail(args))

\* the attributes of well object w other than the distance matrix
OtherAttrs(w) == [k \in (DOMAIN wattr[w]) \ {"distmat"} |-> wattr[w][k]]

C9_FieldsMatchGrid ==
    "arrayshape" \in DOMAIN grid =>
        /\ "H0" \in DOMAIN grid => grid.H0.shape = grid.arrayshape
        /\ \A i \in 1 .. Len(H) : H[i].shape = grid.arrayshape
        /\ \A w \in Wells : "drawdown" \in DOMAIN wattr[w] =>
               wattr[w].drawdown.shape = grid.arrayshape

\* C10: for Q and T, S, t > 0 the confined drawdown at any r <= 0 is a
\* number and equals the drawdown at r = 0.01
C10_DistanceFloor ==
    (/\ theis_call.s # Pending
     /\ theis_call.r <= 0
     /\ theis_call.T > 0 /\ theis_call.S > 0 /\ theis_call.t > 0) =>
        /\ IsNum(theis_call.s)
        /\ theis_call.s = theis_drawdown(theis_call.Q, theis_call.T, RFloor,
                                         theis_call.S, theis_call.t, NTerms, FALSE)

\* C10 witness: a call at r = 0 returned a positive drawdown
C10_Witness ==
    /\ theis_call.s # Pending
    /\ theis_call.r = 0 /\ theis_call.Q > 0
    /\ theis_call.T > 0 /\ theis_call.S > 0 /\ theis_call.t > 0
    /\ IsNum(theis_call.s) /\ theis_call.s > 0

\* C11 (as claimed): in every reachable state, also after a call that
\* raised, every well in self.wells has a cached distance matrix
C11_WellsHaveDistmat ==
    \A w \in Elems(wells) : "distmat" \in DOMAIN wattr[w]

====
